---- MODULE Spec2Model ----
(***************************************************************************)
(* Model of src/main.py: the JSON-driven video assembly script.            *)
(*                                                                         *)
(* Times are integers counted in deciseconds (0.1 s), so the 0.1 s floor   *)
(* of the editing loop is 1 and the 30 s placeholder is 300.  Volumes are  *)
(* counted in percent, so the default gain 1.0 is 100.                     *)
(***************************************************************************)
EXTENDS Integers, Sequences, FiniteSets, TLC

VARIABLES
    call,           \* FnSpec: the helper call under examination
    ret,            \* FnSpec: its return value ("pending" before the call)
    pc,             \* position of the script
    config,         \* the parsed edit plan (json.load, line 154)
    video_assets, gif_assets, image_assets, audio_assets,   \* catalogs
    total_duration, \* pre-pass estimate (line 386)
    main_clips,     \* surviving main-track segments (line 399)
    current_time,   \* accumulator of the editing loop (line 400)
    final_video,    \* main track, then composite (lines 433-437, 562, 596)
    overlay_clips,  \* surviving overlay layers (line 440)
    final_audio,    \* mixed audio (line 566)
    idx,            \* index of the next entry of the loop in progress
    log,            \* what each loop iteration printed: <<stage, index, outcome>>
    output,         \* what write_videofile was given (line 602), None before
    closed,         \* handles on which close() was called (line 608)
    error           \* the uncaught exception that ended the run, "" if none

vars == <<call, ret, pc, config, video_assets, gif_assets, image_assets,
          audio_assets, total_duration, main_clips, current_time, final_video,
          overlay_clips, final_audio, idx, log, output, closed, error>>

runvars == <<pc, config, video_assets, gif_assets, image_assets, audio_assets,
             total_duration, main_clips, current_time, final_video,
             overlay_clips, final_audio, idx, log, output, closed, error>>

(***************************************************************************)
(* Bounds of the model and constants of the program.                       *)
(***************************************************************************)
MaxDur == 20        \* FnSpec: source durations 1..MaxDur
MaxTime == 24       \* FnSpec: requested times 0..MaxTime
MaxTarget == 50     \* FnSpec: loop targets 1..MaxTarget
MaxEntries == 3     \* Spec: entries of a plan, over its three lists
VideoDuration == 100    \* Spec: duration of the video file v1
GifDuration == 50       \* Spec: duration of the gif file g1
AudioDuration == 100    \* Spec: duration of the audio file a1

Eps == 1                    \* the 0.1 of line 413
PlaceholderW == 1920        \* line 437
PlaceholderH == 1080        \* line 437
PlaceholderDuration == 300  \* the 30 s of line 437
DefaultVolume == 100        \* the 1.0 of line 584

Min(a, b) == IF a <= b THEN a ELSE b

RECURSIVE SumDurations(_)
SumDurations(clips) ==
    IF clips = <<>> THEN 0
    ELSE Head(clips).duration + SumDurations(Tail(clips))

(***************************************************************************)
(* Clips.  None is Python's None.                                          *)
(***************************************************************************)
None == [kind |-> "None"]

\* An empty dictionary of handles (lines 160, 168, 176, 183).
EmptyCatalog == [n \in {} |-> None]

\* clip.subclipped(start_time, end_time): the range [from, to) of clip; the
\* result starts at 0 on the timeline until with_start moves it.
subclipped(clip, start_time, end_time) ==
    [kind |-> "subclip", of |-> clip, from |-> start_time, to |-> end_time,
     duration |-> end_time - start_time, start |-> 0]

\* concatenate_videoclips(clips): the clips back to back.
concatenate_videoclips(clips) ==
    [kind |-> "concat", parts |-> clips, duration |-> SumDurations(clips),
     start |-> 0]

\* The same with the end not clamped to the source.
safe_subclip_noclamp(clip, start_time, end_time) ==
    IF start_time >= clip.duration THEN None
    ELSE IF start_time >= end_time THEN None
    ELSE subclipped(clip, start_time, end_time)

\* safe_subclip, lines 56-70.
safe_subclip(clip, start_time, end_time) ==
    LET end == IF end_time > clip.duration THEN clip.duration ELSE end_time
    IN  IF start_time >= clip.duration THEN None
        ELSE IF start_time >= end THEN None
        ELSE subclipped(clip, start_time, end)

\* int(duration / clip.duration) + 1 without the + 1.
loop_count_short(clip, duration) == duration \div clip.duration

\* line 78.
loop_count(clip, duration) == (duration \div clip.duration) + 1

\* loop_clip, lines 72-87.
loop_clip(clip, duration) ==
    IF clip.duration >= duration THEN subclipped(clip, 0, duration)
    ELSE LET loops == loop_count(clip, duration)
             looped_clips == [n \in 1..loops |-> clip]
             concatenated == concatenate_videoclips(looped_clips)
         IN  subclipped(concatenated, 0, duration)

\* The start clamp without the 0.1 floor.
edit_start_nofloor(original_clip, edit) ==
    Min(edit.start_time, original_clip.duration)

\* line 413.
edit_start(original_clip, edit) ==
    Min(edit.start_time, original_clip.duration - Eps)

\* line 414.
edit_end(original_clip, edit) == Min(edit.end_time, original_clip.duration)

\* lines 413-419: the segment of one editing entry whose asset was found.
edit_subclip(original_clip, edit) ==
    safe_subclip(original_clip, edit_start(original_clip, edit),
                 edit_end(original_clip, edit))

(***************************************************************************)
(* FnSpec: the helpers safe_subclip, edit_subclip (the editing loop's      *)
(* clamps followed by safe_subclip) and loop_clip, each applied to every   *)
(* source duration and every requested range within the bounds.            *)
(***************************************************************************)
Pending == [kind |-> "pending"]

SourceClip(d) == [kind |-> "file", name |-> "src", duration |-> d, start |-> 0]

Calls ==
    [fn : {"safe_subclip", "edit_subclip"}, d : 1..MaxDur,
     s : 0..MaxTime, e : 0..MaxTime]
    \cup [fn : {"loop_clip"}, d : 1..MaxDur, s : {0}, e : 1..MaxTarget]

\* The script outside a run: nothing loaded, nothing built.
RunIdle ==
    /\ pc = "idle"
    /\ config = [editing |-> <<>>, overlays |-> <<>>, audio |-> <<>>]
    /\ video_assets = EmptyCatalog /\ gif_assets = EmptyCatalog
    /\ image_assets = EmptyCatalog /\ audio_assets = EmptyCatalog
    /\ total_duration = 0 /\ main_clips = <<>> /\ current_time = 0
    /\ final_video = None /\ overlay_clips = <<>> /\ final_audio = None
    /\ idx = 1 /\ log = <<>> /\ output = None /\ closed = {} /\ error = ""

FnInit == call \in Calls /\ ret = Pending /\ RunIdle

CallSafeSubclip ==
    /\ call.fn = "safe_subclip" /\ ret = Pending
    /\ ret' = safe_subclip(SourceClip(call.d), call.s, call.e)
    /\ UNCHANGED <<call, runvars>>

CallEditSubclip ==
    /\ call.fn = "edit_subclip" /\ ret = Pending
    /\ ret' = edit_subclip(SourceClip(call.d),
                           [start_time |-> call.s, end_time |-> call.e])
    /\ UNCHANGED <<call, runvars>>

CallLoopClip ==
    /\ call.fn = "loop_clip" /\ ret = Pending
    /\ ret' = loop_clip(SourceClip(call.d), call.e)
    /\ UNCHANGED <<call, runvars>>

FnNext == CallSafeSubclip \/ CallEditSubclip \/ CallLoopClip

FnSpec == FnInit /\ [][FnNext]_vars

Returned(fn) == call.fn = fn /\ ret # Pending

(***************************************************************************)
(* C1: safe_subclip returns no segment when start >= d, none when          *)
(* start >= min(end, d), and otherwise exactly [start, min(end, d)) of the *)
(* source; a returned segment never extends past d and has length > 0.     *)
(***************************************************************************)
C1_SafeSubclipContract ==
    Returned("safe_subclip") =>
        LET d == call.d
            m == Min(call.e, call.d)
        IN  /\ (call.s >= d => ret = None)
            /\ (call.s >= m => ret = None)
            /\ (call.s < m =>
                   /\ ret.kind = "subclip"
                   /\ ret.of = SourceClip(d)
                   /\ ret.from = call.s /\ ret.to = m
                   /\ ret.to <= d
                   /\ ret.duration = m - call.s /\ ret.duration > 0)

\* A request reaching past the source came back clamped to it.
C1_Witness ==
    /\ Returned("safe_subclip")
    /\ call.e > call.d /\ call.s < call.d
    /\ ret.kind = "subclip" /\ ret.to = call.d

C10_LoopClipExact ==
    Returned("loop_clip") =>
        LET d == call.d
            T == call.e
        IN  /\ ret.kind = "subclip" /\ ret.from = 0 /\ ret.to = T
            /\ ret.duration = T
            /\ (d >= T => ret.of = SourceClip(d))
            /\ (d < T =>
                   /\ ret.of.kind = "concat"
                   /\ Len(ret.of.parts) = (T \div d) + 1
                   /\ \A n \in 1..Len(ret.of.parts) :
                          ret.of.parts[n] = SourceClip(d)
                   /\ ret.of.duration >= T)
            /\ (d = 20 /\ T = 50 => Len(ret.of.parts) = 3)

\* The 2.0 s source looped to 5.0 s.
C10_Witness ==
    /\ Returned("loop_clip")
    /\ call.d = 20 /\ call.e = 50
    /\ ret.duration = 50 /\ Len(ret.of.parts) = 3

(***************************************************************************)
(* The run of the script, lines 152-609.                                   *)
(*                                                                         *)
(* A plan entry is a record of the keys the model reads, with absent the   *)
(* set of keys the JSON object lacks (reading one raises KeyError).        *)
(***************************************************************************)
Has(entry, key) == key \notin entry.absent

\* The media files on disk: os.path.exists of lines 22 and 41.
Files == {"v1", "g1", "i1", "a1"}

\* config["assets"]: per kind one asset whose file exists and one whose file
\* does not.
DeclaredVideos == <<"v1", "v0">>
DeclaredGifs == <<"g1", "g0">>
DeclaredImages == <<"i1", "i0">>
DeclaredAudios == <<"a1", "a0">>

\* clip.duration of a decoded file; an ImageClip has none until with_duration.
FileDuration(name) ==
    CASE name = "v1" -> VideoDuration
      [] name = "g1" -> GifDuration
      [] name = "a1" -> AudioDuration
      [] OTHER -> 0

\* load_asset, lines 34-54: None when the file is not found.
load_asset(path, asset_type) ==
    IF path \notin Files THEN None
    ELSE [kind |-> "file", name |-> path, duration |-> FileDuration(path),
          start |-> 0]

\* One of the four loading loops, lines 160-189: name -> handle for the
\* assets that loaded.
load_catalog(declared, asset_type) ==
    LET loaded == {declared[n] : n \in {m \in 1..Len(declared) :
                       load_asset(declared[m], asset_type) # None}}
    IN  [name \in loaded |-> load_asset(name, asset_type)]

\* The handles of a catalog: dict.values().
Values(catalog) == {catalog[n] : n \in DOMAIN catalog}

EditEntry(asset, s, e, effects, absent) ==
    [asset |-> asset, start_time |-> s, end_time |-> e, effects |-> effects,
     absent |-> absent]

\* text is the sequence of the text's characters; an optional key the
\* descriptor does not carry (background, animation) is None.
OverlayEntry(type, asset, text, s, e, absent) ==
    [type |-> type, asset |-> asset, text |-> text, start_time |-> s,
     end_time |-> e, position |-> "center", background |-> None,
     animation |-> None, absent |-> absent]

\* {"type": "typewriter", "duration": duration}.
Typewriter(duration) == [type |-> "typewriter", duration |-> duration]

\* A text overlay "AB" at top-left with a typewriter animation, with or
\* without a background box.
TypewriterEntry(background, duration) ==
    [OverlayEntry("text", "", <<"A", "B">>, 0, 80, {"asset"})
        EXCEPT !.position = "top-left", !.background = background,
               !.animation = Typewriter(duration)]

AudioEntry(asset, s, e, volume, absent) ==
    [asset |-> asset, start_time |-> s, end_time |-> e, volume |-> volume,
     absent |-> absent]

\* The editing entries plans are made of.
EditEntries ==
    { EditEntry("v1", 0, 80, <<>>, {"effects"}),
      EditEntry("v1", 80, 120, <<>>, {"effects"}),
      EditEntry("v1", 80, 80, <<>>, {"effects"}),
      EditEntry("v1", 120, 120, <<>>, {"effects"}),
      EditEntry("v1", 0, 40, <<"fadein">>, {}),
      EditEntry("v0", 0, 80, <<>>, {"effects"}),
      EditEntry("", 0, 80, <<>>, {"asset", "effects"}) }

\* The overlay descriptors plans are made of.
OverlayEntries ==
    { OverlayEntry("video", "v1", <<>>, 0, 80, {}),
      OverlayEntry("video", "v1", <<>>, 80, 120, {}),
      OverlayEntry("video", "v1", <<>>, 120, 160, {}),
      OverlayEntry("video", "v0", <<>>, 0, 80, {}),
      OverlayEntry("video", "v1", <<>>, 0, 80, {"start_time"}),
      OverlayEntry("gif", "g1", <<>>, 0, 40, {}),
      OverlayEntry("gif", "g1", <<>>, 40, 160, {}),
      OverlayEntry("gif", "g1", <<>>, 80, 40, {}),
      OverlayEntry("gif", "g0", <<>>, 0, 80, {}),
      OverlayEntry("gif", "", <<>>, 0, 80, {"asset"}),
      OverlayEntry("image", "i1", <<>>, 0, 80, {}),
      OverlayEntry("image", "i1", <<>>, 80, 40, {}),
      OverlayEntry("image", "i0", <<>>, 0, 80, {}),
      OverlayEntry("image", "i1", <<>>, 0, 80, {"position"}),
      OverlayEntry("text", "", <<"A", "B">>, 0, 80, {"asset"}),
      OverlayEntry("text", "", <<"A", "B">>, 80, 40, {"asset"}),
      OverlayEntry("text", "", <<"A", "B">>, 0, 80, {"asset", "end_time"}),
      OverlayEntry("text", "", <<"A", "B">>, 0, 80, {"asset", "color"}),
      OverlayEntry("text", "", <<>>, 0, 80, {"asset", "text"}),
      OverlayEntry("text", "", <<"A", "B">>, 0, 80, {"asset", "font_size"}),
      TypewriterEntry(None, 20),
      TypewriterEntry([color |-> "black", opacity |-> 50], 20),
      [OverlayEntry("image", "i1", <<>>, 0, 80, {})
          EXCEPT !.animation = Typewriter(20)] }

\* The audio descriptors plans are made of.
AudioEntries ==
    { AudioEntry("a1", 0, 80, 50, {}),
      AudioEntry("a1", 80, 0, 0, {"end_time", "volume"}),
      AudioEntry("a1", 120, 160, 50, {}),
      AudioEntry("a0", 0, 80, 50, {}),
      AudioEntry("", 0, 80, 50, {"asset"}) }

\* Every plan of at most MaxEntries entries over its three lists.
Plans ==
    UNION { [editing : [1..i -> EditEntries],
             overlays : [1..j -> OverlayEntries],
             audio : [1..k -> AudioEntries]] :
            <<i, j, k>> \in {t \in (0..MaxEntries) \X (0..MaxEntries)
                                   \X (0..MaxEntries) :
                                 t[1] + t[2] + t[3] <= MaxEntries} }

\* An uncaught exception ends the run where it is raised; the traceback
\* names the statement.
Crash(stage, index, why) ==
    /\ pc' = "crashed"
    /\ error' = why
    /\ log' = Append(log, <<stage, index, "raised">>)

Init ==
    /\ call = [fn |-> "none", d |-> 0, s |-> 0, e |-> 0] /\ ret = Pending
    /\ config \in Plans
    /\ pc = "load"
    /\ video_assets = EmptyCatalog /\ gif_assets = EmptyCatalog
    /\ image_assets = EmptyCatalog /\ audio_assets = EmptyCatalog
    /\ total_duration = 0 /\ main_clips = <<>> /\ current_time = 0
    /\ final_video = None /\ overlay_clips = <<>> /\ final_audio = None
    /\ idx = 1 /\ log = <<>> /\ output = None /\ closed = {} /\ error = ""

\* Lines 159-189.
LoadAssets ==
    /\ pc = "load"
    /\ video_assets' = load_catalog(DeclaredVideos, "video")
    /\ gif_assets' = load_catalog(DeclaredGifs, "gif")
    /\ image_assets' = load_catalog(DeclaredImages, "image")
    /\ audio_assets' = load_catalog(DeclaredAudios, "audio")
    /\ pc' = "prepass"
    /\ UNCHANGED <<call, ret, config, total_duration, main_clips, current_time,
                   final_video, overlay_clips, final_audio, idx, log, output,
                   closed, error>>

\* Lines 388-391 raise KeyError on an entry that lacks a key they read.
prepass_raises(edit) ==
    \/ ~Has(edit, "asset")
    \/ /\ edit.asset \in DOMAIN video_assets
       /\ (~Has(edit, "end_time") \/ ~Has(edit, "start_time"))

\* Lines 388-394: what one entry adds to total_duration.
prepass_actual(edit) ==
    IF edit.asset \in DOMAIN video_assets
    THEN LET original_duration == video_assets[edit.asset].duration
             requested_duration == edit.end_time - edit.start_time
             actual_duration == Min(requested_duration,
                                    original_duration - edit.start_time)
         IN  IF actual_duration > 0 THEN actual_duration ELSE 0
    ELSE 0

RECURSIVE prepass_total(_)
prepass_total(edits) ==
    IF edits = <<>> THEN 0
    ELSE prepass_actual(Head(edits)) + prepass_total(Tail(edits))

\* Lines 385-400: the duration pre-pass over config["editing"].
PrePass ==
    /\ pc = "prepass"
    /\ LET raising == {n \in 1..Len(config.editing) :
                           prepass_raises(config.editing[n])}
       IN  IF raising # {}
           THEN /\ Crash("prepass",
                         CHOOSE n \in raising : \A m \in raising : n <= m,
                         "KeyError")
                /\ UNCHANGED <<total_duration, idx>>
           ELSE /\ total_duration' = prepass_total(config.editing)
                /\ pc' = "edit"
                /\ idx' = 1
                /\ UNCHANGED <<error, log>>
    /\ UNCHANGED <<call, ret, config, video_assets, gif_assets, image_assets,
                   audio_assets, main_clips, current_time, final_video,
                   overlay_clips, final_audio, output, closed>>

\* One effect of apply_effects, lines 222-291: fades and glow keep the
\* clip's duration and start.
apply_effect(clip, effect) ==
    [kind |-> "effect", type |-> effect, of |-> clip,
     duration |-> clip.duration, start |-> clip.start]

\* apply_effects, lines 219-293.
RECURSIVE apply_effects(_, _)
apply_effects(clip, effects) ==
    IF effects = <<>> THEN clip
    ELSE apply_effects(apply_effect(clip, Head(effects)), Tail(effects))

\* edit.get("effects", []), line 425.
effects_of(entry) == IF Has(entry, "effects") THEN entry.effects ELSE <<>>

\* main_clips.append(clip) put at the front instead.
append_clip_front(clips, clip) == <<clip>> \o clips

\* main_clips.append(clip), line 426.
append_clip(clips, clip) == Append(clips, clip)

Logged(stage, outcome) == Append(log, <<stage, idx, outcome>>)

\* Lines 402-429: one iteration of the main editing loop.
EditStep ==
    /\ pc = "edit"
    /\ idx <= Len(config.editing)
    /\ LET edit == config.editing[idx]
       IN  IF ~Has(edit, "asset")
           THEN /\ log' = Logged("edit", "missing_key")
                /\ idx' = idx + 1
                /\ UNCHANGED <<pc, error, main_clips, current_time>>
           ELSE IF edit.asset \in DOMAIN video_assets
           THEN IF ~Has(edit, "start_time") \/ ~Has(edit, "end_time")
                THEN /\ Crash("edit", idx, "KeyError")
                     /\ UNCHANGED <<idx, main_clips, current_time>>
                ELSE LET clip == edit_subclip(video_assets[edit.asset], edit)
                     IN  IF clip = None
                         THEN /\ log' = Logged("edit", "invalid_range")
                              /\ idx' = idx + 1
                              /\ UNCHANGED <<pc, error, main_clips,
                                             current_time>>
                         ELSE /\ main_clips' = append_clip(main_clips,
                                      apply_effects(clip, effects_of(edit)))
                              /\ current_time' = current_time + clip.duration
                              /\ log' = Logged("edit", "added")
                              /\ idx' = idx + 1
                              /\ UNCHANGED <<pc, error>>
           ELSE /\ log' = Logged("edit", "not_found")
                /\ idx' = idx + 1
                /\ UNCHANGED <<pc, error, main_clips, current_time>>
    /\ UNCHANGED <<call, ret, config, video_assets, gif_assets, image_assets,
                   audio_assets, total_duration, final_video, overlay_clips,
                   final_audio, output, closed>>

\* ColorClip((1920, 1080), color=(0, 0, 0), duration=30), line 437.
Placeholder ==
    [kind |-> "color", w |-> PlaceholderW, h |-> PlaceholderH,
     color |-> <<0, 0, 0>>, duration |-> PlaceholderDuration, start |-> 0]

\* The other branch of line 432: concatenate whatever main_clips holds.
main_track_noplaceholder(clips) == concatenate_videoclips(clips)

\* Lines 432-437.
main_track(clips) ==
    IF clips # <<>> THEN concatenate_videoclips(clips) ELSE Placeholder

\* Lines 431-440: the editing loop is over; the main track is built.
CreateFinalVideo ==
    /\ pc = "edit"
    /\ idx > Len(config.editing)
    /\ final_video' = main_track(main_clips)
    /\ pc' = "overlay"
    /\ idx' = 1
    /\ UNCHANGED <<call, ret, config, video_assets, gif_assets, image_assets,
                   audio_assets, total_duration, main_clips, current_time,
                   overlay_clips, final_audio, log, output, closed, error>>

(***************************************************************************)
(* Overlays, lines 439-563.                                                *)
(***************************************************************************)
\* What building the base clip of one overlay comes to: a clip (None for
\* a type no branch handles or a branch that made none), a continue, or an
\* uncaught exception.
Built(clip) == [tag |-> "clip", clip |-> clip, why |-> ""]
Skipped(why) == [tag |-> "skip", clip |-> None, why |-> why]
Raised(why) == [tag |-> "raise", clip |-> None, why |-> why]

RECURSIVE MaxEnd(_)
MaxEnd(clips) ==
    IF clips = <<>> THEN 0
    ELSE LET rest == MaxEnd(Tail(clips))
             end == Head(clips).start + Head(clips).duration
         IN  IF end > rest THEN end ELSE rest

\* CompositeVideoClip(clips): clips[1] at the bottom, the last on top; it
\* lasts until its last layer ends.
CompositeVideoClip(clips) ==
    [kind |-> "composite", layers |-> clips, duration |-> MaxEnd(clips),
     start |-> 0]

\* clip.with_duration(duration) of a loaded image, line 492.
image_with_duration(clip, duration) ==
    [kind |-> "image", of |-> clip, duration |-> duration, start |-> 0]

\* TextClip(...).with_duration(duration), lines 511-516.
text_clip(text, duration) ==
    [kind |-> "text", txt |-> text, duration |-> duration, start |-> 0]

\* Lines 447-462.
video_overlay_base(overlay) ==
    IF ~Has(overlay, "asset") THEN Skipped("missing_key")
    ELSE IF overlay.asset \in DOMAIN video_assets
    THEN IF ~Has(overlay, "start_time") \/ ~Has(overlay, "end_time")
         THEN Raised("KeyError")
         ELSE LET clip == safe_subclip(video_assets[overlay.asset],
                                       overlay.start_time, overlay.end_time)
              IN  IF clip = None THEN Skipped("invalid_range") ELSE Built(clip)
    ELSE Skipped("not_found")

\* Lines 464-481.
gif_overlay_base(overlay) ==
    IF ~Has(overlay, "asset") THEN Skipped("missing_key")
    ELSE IF overlay.asset \in DOMAIN gif_assets
    THEN IF ~Has(overlay, "start_time") \/ ~Has(overlay, "end_time")
         THEN Raised("KeyError")
         ELSE LET original_clip == gif_assets[overlay.asset]
                  duration == overlay.end_time - overlay.start_time
              IN  IF duration > original_clip.duration
                  THEN Built(loop_clip(original_clip, duration))
                  ELSE Built(safe_subclip(original_clip, 0, duration))
    ELSE Skipped("not_found")

\* Lines 483-495.
image_overlay_base(overlay) ==
    IF ~Has(overlay, "asset") THEN Skipped("missing_key")
    ELSE IF overlay.asset \in DOMAIN image_assets
    THEN IF ~Has(overlay, "start_time") \/ ~Has(overlay, "end_time")
         THEN Raised("KeyError")
         ELSE Built(image_with_duration(image_assets[overlay.asset],
                        overlay.end_time - overlay.start_time))
    ELSE Skipped("not_found")

\* The box behind a text, lines 520-525: as long as the text.
background_box(background, clip) ==
    [kind |-> "color", color |-> background.color,
     opacity |-> background.opacity, duration |-> clip.duration, start |-> 0]

\* Lines 497-529: the duration is read outside the try, the rest inside it.
text_overlay_base(overlay) ==
    IF ~Has(overlay, "start_time") \/ ~Has(overlay, "end_time")
    THEN Raised("KeyError")
    ELSE IF ~Has(overlay, "color") \/ ~Has(overlay, "text")
            \/ ~Has(overlay, "font_size")
    THEN Skipped("text_error")
    ELSE LET clip == text_clip(overlay.text,
                               overlay.end_time - overlay.start_time)
         IN  IF overlay.background # None
             THEN Built(CompositeVideoClip(
                            <<background_box(overlay.background, clip),
                              clip>>))
             ELSE Built(clip)

\* Lines 442-533: the base clip by type; line 531 skips a None.
overlay_base(overlay) ==
    LET built ==
            CASE ~Has(overlay, "type") -> Raised("KeyError")
              [] overlay.type = "video" -> video_overlay_base(overlay)
              [] overlay.type = "gif" -> gif_overlay_base(overlay)
              [] overlay.type = "image" -> image_overlay_base(overlay)
              [] overlay.type = "text" -> text_overlay_base(overlay)
              [] OTHER -> Built(None)
    IN  IF built.tag = "clip" /\ built.clip = None
        THEN Skipped("no_clip") ELSE built

\* parse_position, lines 198-217, for the keyword positions.
parse_position(position) ==
    CASE position = "center" -> <<"center", "center">>
      [] position = "top-center" -> <<"center", "0.1">>
      [] position = "bottom-center" -> <<"center", "0.9">>
      [] position = "top-left" -> <<"0.1", "0.1">>
      [] position = "top-right" -> <<"0.9", "0.1">>
      [] position = "bottom-left" -> <<"0.1", "0.9">>
      [] position = "bottom-right" -> <<"0.9", "0.9">>
      [] OTHER -> <<"center", "center">>

\* clip.with_position(position), line 541: a copy of the clip, of the same
\* class and attributes, placed at position.
with_position(clip, position) ==
    [kind |-> "positioned", of |-> clip, pos |-> position,
     duration |-> clip.duration, start |-> clip.start]

\* clip.with_effects([vfx.FadeIn(duration)]), lines 299 and 381: a copy of
\* the clip that fades in.
fade_in(clip, duration) ==
    [kind |-> "fadein", of |-> clip, fade |-> duration,
     duration |-> clip.duration, start |-> clip.start]

\* hasattr(clip, 'txt'), line 297: a TextClip, positioned or not; a
\* CompositeVideoClip has no txt.
has_txt(clip) ==
    IF clip.kind = "positioned" THEN clip.of.kind = "text"
    ELSE clip.kind = "text"

\* clip.txt, line 301.
txt_of(clip) == IF clip.kind = "positioned" THEN clip.of.txt ELSE clip.txt

\* Where a clip is drawn: clip.pos, (0, 0) for a clip never positioned.
pos_of(clip) ==
    CASE clip.kind = "positioned" -> clip.pos
      [] clip.kind = "fadein" /\ clip.of.kind = "positioned" -> clip.of.pos
      [] OTHER -> <<"0", "0">>

\* Lines 312-328: the clip of character number i (from 0) of a text; the
\* true division of line 307 is exact for the durations drawn, which the
\* length of the text divides.
char_clip(clip, characters, i, duration) ==
    LET char_duration == duration \div Len(characters)
    IN  [kind |-> "positioned",
         of |-> [kind |-> "text", txt |-> <<characters[i + 1]>>,
                 duration |-> char_duration, start |-> 0],
         pos |-> pos_of(clip), duration |-> char_duration,
         start |-> i * char_duration]

\* create_typewriter_effect, lines 295-334.
create_typewriter_effect(clip, duration) ==
    IF ~has_txt(clip) THEN fade_in(clip, duration)
    ELSE IF txt_of(clip) = <<>> THEN clip
    ELSE LET characters == txt_of(clip)
             char_clips == [n \in 1..Len(characters) |->
                               char_clip(clip, characters, n - 1, duration)]
         IN  CompositeVideoClip(char_clips)

\* apply_animation, lines 336-383: bounce and scroll move the clip and keep
\* its content and duration; the fallback of lines 378-381 is for a
\* create_typewriter_effect that raises, which it does not on the clips
\* built here.
apply_animation(clip, animation) ==
    CASE animation.type = "typewriter" ->
             create_typewriter_effect(clip, animation.duration)
      [] animation.type \in {"bounce", "scroll"} ->
             with_position(clip, <<animation.type, animation.type>>)
      [] OTHER -> clip

\* Lines 535-556 for a descriptor without size, opacity or effects: the
\* base clip positioned, animated if asked, and anchored at start_time.
overlay_layer(overlay, clip) ==
    LET positioned == with_position(clip, parse_position(overlay.position))
        animated == IF overlay.animation # None
                    THEN apply_animation(positioned, overlay.animation)
                    ELSE positioned
    IN  [kind |-> "layer", clip |-> animated, pos |-> pos_of(animated),
         start |-> overlay.start_time, duration |-> animated.duration]

\* Lines 441-557: what one overlay descriptor comes to.
overlay_result(overlay) ==
    LET built == overlay_base(overlay)
    IN  IF built.tag # "clip" THEN built
        ELSE IF ~Has(overlay, "position") THEN Raised("KeyError")
        ELSE Built(overlay_layer(overlay, built.clip))

\* overlay_clips.append(clip) put at the front instead.
append_overlay_front(clips, clip) == <<clip>> \o clips

\* overlay_clips.append(clip), line 557.
append_overlay(clips, clip) == Append(clips, clip)

\* Lines 441-558: one iteration of the overlay loop.
OverlayStep ==
    /\ pc = "overlay"
    /\ idx <= Len(config.overlays)
    /\ LET result == overlay_result(config.overlays[idx])
       IN  CASE result.tag = "raise" ->
                    /\ Crash("overlay", idx, result.why)
                    /\ UNCHANGED <<overlay_clips, idx>>
             [] result.tag = "skip" ->
                    /\ log' = Logged("overlay", result.why)
                    /\ idx' = idx + 1
                    /\ UNCHANGED <<overlay_clips, pc, error>>
             [] result.tag = "clip" ->
                    /\ overlay_clips' = append_overlay(overlay_clips,
                                                       result.clip)
                    /\ log' = Logged("overlay", "added")
                    /\ idx' = idx + 1
                    /\ UNCHANGED <<pc, error>>
    /\ UNCHANGED <<call, ret, config, video_assets, gif_assets, image_assets,
                   audio_assets, total_duration, main_clips, current_time,
                   final_video, final_audio, output, closed>>

\* Lines 560-566: the overlay loop is over; the layers go above the track.
CompositeOverlays ==
    /\ pc = "overlay"
    /\ idx > Len(config.overlays)
    /\ final_video' = IF overlay_clips # <<>>
                      THEN CompositeVideoClip(<<final_video>> \o overlay_clips)
                      ELSE final_video
    /\ pc' = "audio"
    /\ idx' = 1
    /\ UNCHANGED <<call, ret, config, video_assets, gif_assets, image_assets,
                   audio_assets, total_duration, main_clips, current_time,
                   overlay_clips, final_audio, log, output, closed, error>>

(***************************************************************************)
(* Audio, lines 565-596.                                                   *)
(***************************************************************************)
\* audio_clip * volume, line 585: a gain; the clip keeps its place.
multiply_volume(clip, volume) ==
    [kind |-> "gain", of |-> clip, volume |-> volume,
     duration |-> clip.duration, start |-> clip.start]

\* final_audio.overlay(audio_clip), line 590: the two sounding together,
\* each where its own start puts it (no position is passed).
audio_overlay(base, clip) ==
    [kind |-> "mix", base |-> base, over |-> clip,
     duration |-> IF base.duration >= clip.duration
                  THEN base.duration ELSE clip.duration,
     start |-> 0]

\* Lines 576-585 for a descriptor whose asset was found.
audio_result(audio) ==
    IF ~Has(audio, "start_time") THEN Raised("KeyError")
    ELSE LET original_clip == audio_assets[audio.asset]
             end_time == IF Has(audio, "end_time") THEN audio.end_time
                         ELSE original_clip.duration
             audio_clip == safe_subclip(original_clip, audio.start_time,
                                        end_time)
             volume == IF Has(audio, "volume") THEN audio.volume
                       ELSE DefaultVolume
         IN  IF audio_clip = None THEN Skipped("invalid_range")
             ELSE Built(multiply_volume(audio_clip, volume))

\* Lines 567-593: one iteration of the audio loop.
AudioStep ==
    /\ pc = "audio"
    /\ idx <= Len(config.audio)
    /\ LET audio == config.audio[idx]
           result == IF ~Has(audio, "asset") THEN Skipped("missing_key")
                     ELSE IF audio.asset \in DOMAIN audio_assets
                     THEN audio_result(audio)
                     ELSE Skipped("not_found")
       IN  CASE result.tag = "raise" ->
                    /\ Crash("audio", idx, result.why)
                    /\ UNCHANGED <<final_audio, idx>>
             [] result.tag = "skip" ->
                    /\ log' = Logged("audio", result.why)
                    /\ idx' = idx + 1
                    /\ UNCHANGED <<final_audio, pc, error>>
             [] result.tag = "clip" ->
                    /\ final_audio' = IF final_audio = None THEN result.clip
                                      ELSE audio_overlay(final_audio,
                                                         result.clip)
                    /\ log' = Logged("audio", "added")
                    /\ idx' = idx + 1
                    /\ UNCHANGED <<pc, error>>
    /\ UNCHANGED <<call, ret, config, video_assets, gif_assets, image_assets,
                   audio_assets, total_duration, main_clips, current_time,
                   final_video, overlay_clips, output, closed>>

\* final_video.with_audio(final_audio), line 596.
with_audio(video, audio) ==
    [kind |-> "with_audio", video |-> video, audio |-> audio,
     duration |-> video.duration, start |-> 0]

\* Lines 595-601: the audio loop is over; the mix, if any, is attached.
AttachAudio ==
    /\ pc = "audio"
    /\ idx > Len(config.audio)
    /\ final_video' = IF final_audio # None
                      THEN with_audio(final_video, final_audio)
                      ELSE final_video
    /\ pc' = "render"
    /\ UNCHANGED <<call, ret, config, video_assets, gif_assets, image_assets,
                   audio_assets, total_duration, main_clips, current_time,
                   overlay_clips, final_audio, idx, log, output, closed,
                   error>>

(***************************************************************************)
(* Render and clean-up, lines 598-609.                                     *)
(***************************************************************************)
\* final_video.write_videofile(...), line 602, returns.
Render ==
    /\ pc = "render"
    /\ output' = final_video
    /\ pc' = "cleanup"
    /\ UNCHANGED <<call, ret, config, video_assets, gif_assets, image_assets,
                   audio_assets, total_duration, main_clips, current_time,
                   final_video, overlay_clips, final_audio, idx, log, closed,
                   error>>

\* final_video.write_videofile(...), line 602, raises: the encoder fails.
RenderFails ==
    /\ pc = "render"
    /\ Crash("render", 0, "EncodeError")
    /\ UNCHANGED <<call, ret, config, video_assets, gif_assets, image_assets,
                   audio_assets, total_duration, main_clips, current_time,
                   final_video, overlay_clips, final_audio, idx, output,
                   closed>>

\* The handles the run holds: the values of the four catalogs (line 606).
LoadedHandles ==
    Values(video_assets) \cup Values(gif_assets) \cup Values(image_assets)
        \cup Values(audio_assets)

\* Line 606: every handle of the four catalogs.
handles_to_close == LoadedHandles

\* Lines 604-609.
CleanUp ==
    /\ pc = "cleanup"
    /\ closed' = closed \cup handles_to_close
    /\ pc' = "done"
    /\ UNCHANGED <<call, ret, config, video_assets, gif_assets, image_assets,
                   audio_assets, total_duration, main_clips, current_time,
                   final_video, overlay_clips, final_audio, idx, log, output,
                   error>>

Next ==
    \/ LoadAssets
    \/ PrePass
    \/ EditStep
    \/ CreateFinalVideo
    \/ OverlayStep
    \/ CompositeOverlays
    \/ AudioStep
    \/ AttachAudio
    \/ Render
    \/ RenderFails
    \/ CleanUp

Spec == Init /\ [][Next]_vars

(***************************************************************************)
(* What the claims speak of.                                               *)
(***************************************************************************)
\* The indices, in the order printed, of the entries a loop reported with
\* the given outcome.
RECURSIVE IndicesLogged(_, _, _)
IndicesLogged(lines, stage, outcome) ==
    IF lines = <<>> THEN <<>>
    ELSE LET rest == IndicesLogged(Tail(lines), stage, outcome)
         IN  IF Head(lines)[1] = stage /\ Head(lines)[3] = outcome
             THEN <<Head(lines)[2]>> \o rest ELSE rest

\* The picture without its sound.
Visual(video) == IF video.kind = "with_audio" THEN video.video ELSE video

\* The bottom of the picture: the main track.
MainTrackOf(video) ==
    IF Visual(video).kind = "composite" THEN Visual(video).layers[1]
    ELSE Visual(video)

\* A clip without the effects applied to it.
RECURSIVE Bare(_)
Bare(clip) == IF clip.kind = "effect" THEN Bare(clip.of) ELSE clip

\* The editing loop has ended and the main track exists.
MainTrackBuilt == final_video # None

\* An editing entry survives when its asset is in the catalog and its
\* clamped range is not empty.
EditSurvives(edit) ==
    /\ Has(edit, "asset") /\ edit.asset \in DOMAIN video_assets
    /\ Min(edit.start_time, video_assets[edit.asset].duration - Eps)
           < Min(edit.end_time, video_assets[edit.asset].duration)

SurvivingEdits == SelectSeq(config.editing, EditSurvives)

(***************************************************************************)
(* C3: after the editing loop the main track is the concatenation of       *)
(* exactly the surviving segments in the order their entries are declared, *)
(* and its duration is the sum of theirs; one edit {start_time 8,          *)
(* end_time 12} on a 10 s video gives the segment [8, 10) and a main track *)
(* of 2 s.                                                                 *)
(***************************************************************************)
C3_MainTrackIsConcatenation ==
    MainTrackBuilt /\ SurvivingEdits # <<>> =>
        LET track == MainTrackOf(final_video)
            want == SurvivingEdits
        IN  /\ track.kind = "concat"
            /\ Len(track.parts) = Len(want)
            /\ \A k \in 1..Len(want) :
                   LET d == video_assets[want[k].asset].duration
                       seg == Bare(track.parts[k])
                   IN  /\ seg.kind = "subclip"
                       /\ seg.of = video_assets[want[k].asset]
                       /\ seg.from = Min(want[k].start_time, d - Eps)
                       /\ seg.to = Min(want[k].end_time, d)
                       /\ track.parts[k].duration = seg.to - seg.from
            /\ track.duration = SumDurations(track.parts)
            /\ (/\ Len(config.editing) = 1
                /\ config.editing[1].asset = "v1" /\ VideoDuration = 100
                /\ config.editing[1].start_time = 80
                /\ config.editing[1].end_time = 120
                =>  /\ Len(track.parts) = 1
                    /\ track.parts[1].from = 80 /\ track.parts[1].to = 100
                    /\ track.duration = 20)

\* Two different segments survived around a skipped entry, and the run ended.
C3_Witness ==
    /\ pc = "done"
    /\ Len(config.editing) = 3
    /\ IndicesLogged(log, "edit", "added") = <<1, 3>>
    /\ main_clips[1] # main_clips[2]
    /\ MainTrackOf(output).duration = main_clips[1].duration
                                          + main_clips[2].duration

(***************************************************************************)
(* C4: whenever no editing entry yields a surviving segment (empty list,   *)
(* all assets missing from the catalog, or all ranges invalid) the run     *)
(* does not fail there: the main track is the 1920x1080 black placeholder  *)
(* of 30 s and the run goes on to the overlays, the audio and the render.  *)
(***************************************************************************)
\* Every editing entry names an asset, and none survives.
NoEditSurvives ==
    \A n \in 1..Len(config.editing) :
        /\ Has(config.editing[n], "asset")
        /\ ~EditSurvives(config.editing[n])

IsBlackPlaceholder(clip) ==
    /\ clip.kind = "color"
    /\ clip.w = 1920 /\ clip.h = 1080
    /\ clip.color = <<0, 0, 0>>
    /\ clip.duration = 300

C4_PlaceholderFallback ==
    NoEditSurvives =>
        /\ pc \notin {"load", "prepass", "edit"} => MainTrackBuilt
        /\ MainTrackBuilt => IsBlackPlaceholder(MainTrackOf(final_video))
        /\ output # None => IsBlackPlaceholder(MainTrackOf(output))
        /\ \A n \in 1..Len(log) :
               log[n][3] = "raised" => log[n][1] \in {"overlay", "audio",
                                                      "render"}

\* A plan whose editing entries were all skipped was rendered on the
\* placeholder.
C4_Witness ==
    /\ pc = "done"
    /\ Len(config.editing) = 2
    /\ IndicesLogged(log, "edit", "invalid_range") # <<>>
    /\ IndicesLogged(log, "edit", "not_found") # <<>>
    /\ IsBlackPlaceholder(MainTrackOf(output))

(***************************************************************************)
(* C5: an editing, overlay or audio entry that names an asset absent from  *)
(* the catalog, or whose time range is invalid (start >= end or            *)
(* start >= source duration), is skipped alone: it raises nothing and      *)
(* leaves no segment, layer or track.  For an editing entry the range is   *)
(* the clamped one; for a gif, image or text overlay, whose start_time is  *)
(* no offset into a source, the invalid range is start >= end.             *)
(***************************************************************************)
EditFaulty(edit) ==
    /\ Has(edit, "asset")
    /\ \/ edit.asset \notin DOMAIN video_assets
       \/ ~EditSurvives(edit)

OverlayFaulty(overlay) ==
    /\ overlay.absent \subseteq {"asset"}
    /\ \/ /\ overlay.type = "video"
          /\ \/ overlay.asset \notin DOMAIN video_assets
             \/ overlay.start_time >= overlay.end_time
             \/ overlay.start_time >= video_assets[overlay.asset].duration
       \/ /\ overlay.type = "gif"
          /\ \/ overlay.asset \notin DOMAIN gif_assets
             \/ overlay.start_time >= overlay.end_time
       \/ /\ overlay.type = "image"
          /\ \/ overlay.asset \notin DOMAIN image_assets
             \/ overlay.start_time >= overlay.end_time
       \/ /\ overlay.type = "text"
          /\ overlay.start_time >= overlay.end_time

AudioFaulty(audio) ==
    /\ Has(audio, "asset") /\ Has(audio, "start_time")
    /\ \/ audio.asset \notin DOMAIN audio_assets
       \/ audio.start_time >= audio_assets[audio.asset].duration
       \/ Has(audio, "end_time") /\ audio.start_time >= audio.end_time

EntryLogged(line) ==
    CASE line[1] = "edit" -> config.editing[line[2]]
      [] line[1] = "overlay" -> config.overlays[line[2]]
      [] line[1] = "audio" -> config.audio[line[2]]

FaultyLogged(line) ==
    CASE line[1] = "edit" -> EditFaulty(EntryLogged(line))
      [] line[1] = "overlay" -> OverlayFaulty(EntryLogged(line))
      [] line[1] = "audio" -> AudioFaulty(EntryLogged(line))
      [] OTHER -> FALSE

C5_FaultyEntrySkipped ==
    \A n \in 1..Len(log) :
        FaultyLogged(log[n]) => log[n][3] \notin {"added", "raised"}

(***************************************************************************)
(* C6: an overlay descriptor of any kind that lacks a required field       *)
(* (start_time, end_time, position, asset, text, color, font_size) is      *)
(* skipped with a warning and the run continues.                           *)
(***************************************************************************)
RequiredFields(overlay) ==
    {"start_time", "end_time", "position"}
        \cup (IF overlay.type = "text" THEN {"text", "color", "font_size"}
              ELSE {"asset"})

LacksRequiredField(overlay) ==
    overlay.absent \cap RequiredFields(overlay) # {}

C6_MissingFieldSkipped ==
    \A n \in 1..Len(log) :
        log[n][1] = "overlay" /\ LacksRequiredField(config.overlays[log[n][2]])
            => log[n][3] \notin {"added", "raised"}

(***************************************************************************)
(* C7: the final picture has the main track at the bottom and above it     *)
(* exactly the surviving overlay layers in declaration order: of two       *)
(* surviving overlays the one declared later has the higher stacking       *)
(* index, whatever entries between or around them were skipped.            *)
(***************************************************************************)
C7_StackingOrder ==
    pc \in {"audio", "render", "cleanup", "done"} =>
        LET added == IndicesLogged(log, "overlay", "added")
            picture == Visual(final_video)
        IN  IF added = <<>>
            THEN picture = main_track(main_clips)
            ELSE /\ picture.kind = "composite"
                 /\ Len(picture.layers) = Len(added) + 1
                 /\ picture.layers[1] = main_track(main_clips)
                 /\ \A k \in 1..Len(added) :
                        LET overlay == config.overlays[added[k]]
                            layer == picture.layers[k + 1]
                        IN  /\ layer.kind = "layer"
                            /\ layer = overlay_result(overlay).clip
                            /\ layer.start = overlay.start_time
                 /\ \A k1, k2 \in 1..Len(added) :
                        k1 < k2 => added[k1] < added[k2]

\* Two different layers survived around a skipped descriptor and were
\* rendered.
C7_Witness ==
    /\ pc = "done"
    /\ Len(config.overlays) = 3
    /\ IndicesLogged(log, "overlay", "added") = <<1, 3>>
    /\ Visual(output).kind = "composite"
    /\ Len(Visual(output).layers) = 3
    /\ Visual(output).layers[2] # Visual(output).layers[3]

(***************************************************************************)
(* C8: the mixed audio is the sum of all resolved audio segments, each     *)
(* scaled by its volume (default 1.0) and each placed on the output        *)
(* timeline at its descriptor's start_time.                                *)
(***************************************************************************)
\* The segments sounding in a mix, in the order they were mixed in.
RECURSIVE Tracks(_)
Tracks(audio) ==
    IF audio = None THEN <<>>
    ELSE IF audio.kind = "mix" THEN Tracks(audio.base) \o <<audio.over>>
    ELSE <<audio>>

C8_AudioPlacedAtStartTime ==
    LET added == IndicesLogged(log, "audio", "added")
        tracks == Tracks(final_audio)
    IN  /\ Len(tracks) = Len(added)
        /\ \A k \in 1..Len(added) :
               LET audio == config.audio[added[k]]
               IN  /\ tracks[k].volume = (IF Has(audio, "volume")
                                          THEN audio.volume ELSE 100)
                   /\ tracks[k].start = audio.start_time

(***************************************************************************)
(* C9: every media handle loaded into the catalogs is released on every    *)
(* exit path: when the run has ended, by success or by a failure in        *)
(* editing, overlay, audio or render, every loaded handle has been closed. *)
(***************************************************************************)
C9_HandlesReleasedOnEveryExit ==
    pc \in {"done", "crashed"} => LoadedHandles \subseteq closed

\* The overlay descriptors whose layers were appended, in the order of
\* overlay_clips.
AddedOverlays == IndicesLogged(log, "overlay", "added")

\* animation == {"type": "typewriter", ...}.
IsTypewriter(overlay) ==
    overlay.animation # None /\ overlay.animation.type = "typewriter"

\* The content of layer is n character sub-layers, number i (from 0) of
\* duration D/n, starting at i*D/n, drawn at position.
TypedOut(layer, n, D, position) ==
    /\ layer.clip.kind = "composite"
    /\ Len(layer.clip.layers) = n
    /\ \A i \in 0..(n - 1) :
           LET sub == layer.clip.layers[i + 1]
           IN  /\ sub.duration * n = D
               /\ sub.start * n = i * D
               /\ pos_of(sub) = position

\* The content of layer is its target fading in over D, with no sub-layers.
FadedIn(layer, D) ==
    /\ layer.clip.kind = "fadein"
    /\ layer.clip.fade = D

(***************************************************************************)
(* C11: for every text overlay whose text has n >= 1 characters and whose  *)
(* animation is typewriter with duration D, the animated layer consists of *)
(* exactly n character sub-layers, the i-th (from 0) of duration D/n and   *)
(* start offset i*D/n, all at the parent's position; a typewriter          *)
(* animation of an overlay that is not a text is a plain fade-in of D with *)
(* no sub-layers.                                                          *)
(***************************************************************************)
C11_TypewriterSubLayers ==
    \A k \in 1..Len(overlay_clips) :
        LET overlay == config.overlays[AddedOverlays[k]]
            layer == overlay_clips[k]
        IN  IsTypewriter(overlay) =>
                IF overlay.type = "text"
                THEN Len(overlay.text) >= 1 =>
                        TypedOut(layer, Len(overlay.text),
                                 overlay.animation.duration,
                                 parse_position(overlay.position))
                ELSE FadedIn(layer, overlay.animation.duration)

\* An entry of the editing, overlays (video, gif, image) or audio list
\* without its 'asset' key, as the log line names it; the pre-pass reads
\* the editing list too.
LacksAsset(line) ==
    CASE line[1] \in {"edit", "prepass"} ->
             line[2] \in 1..Len(config.editing)
                 /\ ~Has(config.editing[line[2]], "asset")
      [] line[1] = "overlay" ->
             config.overlays[line[2]].type \in {"video", "gif", "image"}
                 /\ config.overlays[line[2]].absent = {"asset"}
      [] line[1] = "audio" -> config.audio[line[2]].absent = {"asset"}
      [] OTHER -> FALSE

(***************************************************************************)
(* C12: an entry of the editing list, of the overlays list (kind video,    *)
(* gif or image) or of the audio list that lacks its 'asset' key is        *)
(* skipped with a warning, never raising an error, and the run continues   *)
(* with the following entries and stages.                                  *)
(***************************************************************************)
C12_MissingAssetSkipped ==
    \A n \in 1..Len(log) :
        LacksAsset(log[n]) => log[n][3] = "missing_key"

(***************************************************************************)
(* C13: every layer appended to the overlay stack has strictly positive    *)
(* duration: for every overlay kind (video, gif, image, text), a           *)
(* descriptor with end_time <= start_time never produces a surviving       *)
(* layer.                                                                  *)
(***************************************************************************)
C13_PositiveLayerDuration ==
    /\ \A k \in 1..Len(overlay_clips) : overlay_clips[k].duration > 0
    /\ \A n \in 1..Len(log) :
           LET overlay == config.overlays[log[n][2]]
           IN  log[n][1] = "overlay" /\ log[n][3] = "added"
                   => overlay.end_time > overlay.start_time

====
